---------------------------- MODULE Spec2Model ----------------------------
(***************************************************************************)
(* Model of the csync background synchronisation daemon                   *)
(* (src/src/csync/daemon.py): the file-event handler, the pending-change  *)
(* set and its lock, the scheduler loop, perform_sync, and the start/stop *)
(* life cycle of daemon processes that share one process registry.        *)
(*                                                                         *)
(* The process registry (csync.process_manager) is not part of the        *)
(* sources at hand; its operations are modelled from the written          *)
(* specification (section 4.5) and are grouped under "Process registry".  *)
(*                                                                         *)
(* Text is modelled as sequences of one-character strings, a path as a    *)
(* sequence of components.  Time is in whole seconds.                     *)
(*                                                                         *)
(* Writing to the console (rich's Console.print, which writes to           *)
(* sys.stdout) returns normally while sys.stdout is open and raises        *)
(* ValueError once start() has closed it (detached mode); the messages     *)
(* themselves are not part of the state.  The log line that on_any_event   *)
(* prints after recording a path is left out: what an exception does to    *)
(* the watcher's thread is decided inside the watchdog library.            *)
(***************************************************************************)
EXTENDS Integers, Sequences, FiniteSets, TLC

(***************************************************************************)
(* Bounds of the model                                                     *)
(***************************************************************************)
MaxEvents == 1      \* watcher events delivered to one daemon
MaxTicks == 1       \* clock advances
StartClock == 1000  \* wall clock (seconds since the epoch) at the first start()

(***************************************************************************)
(* Program constants                                                       *)
(***************************************************************************)
sync_delay == 5
max_sync_interval == 300
TickSleep == 1
ErrorSleep == 5

Daemons == {"d1", "d2"}                 \* start() invocations (one CLI process each)
SyncThreads == {"main", "sync"}         \* threads that run perform_sync
Threads == {"main", "sync", "obs", "parent"}
ClockSteps == {1, 6}                    \* amounts by which the clock is seen to advance

(***************************************************************************)
(* Text and paths                                                          *)
(***************************************************************************)
Slash == "/"
Star == "*"
QMark == "?"
Backslash == "\\"

IsPrefix(p, s) == Len(p) <= Len(s) /\ SubSeq(s, 1, Len(p)) = p

\* str.startswith
startswith(s, p) == IsPrefix(p, s)

\* (the rule is used with its trailing slash)
slash_kept(s) == s

\* str.rstrip("/")
RECURSIVE rstrip_slash(_)
rstrip_slash(s) ==
    IF s # <<>> /\ s[Len(s)] = Slash THEN rstrip_slash(SubSeq(s, 1, Len(s) - 1)) ELSE s

\* str.endswith("/")
endswith_slash(s) == s # <<>> /\ s[Len(s)] = Slash

\* "/".join(components)
RECURSIVE as_posix(_)
as_posix(comps) ==
    IF comps = <<>> THEN <<>>
    ELSE IF Len(comps) = 1 THEN comps[1]
    ELSE comps[1] \o <<Slash>> \o as_posix(Tail(comps))

\* fnmatch.fnmatch on POSIX for patterns built from literals, "*" and "?"
RECURSIVE fnmatch(_, _)
fnmatch(s, pat) ==
    IF pat = <<>> THEN s = <<>>
    ELSE IF pat[1] = Star
         THEN fnmatch(s, Tail(pat)) \/ (s # <<>> /\ fnmatch(Tail(s), pat))
    ELSE IF s = <<>> THEN FALSE
    ELSE (pat[1] = QMark \/ pat[1] = s[1]) /\ fnmatch(Tail(s), Tail(pat))

\* Path.resolve() on a file system without symbolic links: "." is dropped and
\* ".." removes the component before it.
RECURSIVE resolve_onto(_, _)
resolve_onto(done, rest) ==
    IF rest = <<>> THEN done
    ELSE IF rest[1] = <<".">> THEN resolve_onto(done, Tail(rest))
    ELSE IF rest[1] = <<".", ".">>
         THEN resolve_onto(IF done = <<>> THEN <<>> ELSE SubSeq(done, 1, Len(done) - 1),
                           Tail(rest))
    ELSE resolve_onto(Append(done, rest[1]), Tail(rest))

resolve(comps) == resolve_onto(<<>>, comps)

\* The watched root of every daemon of the model: CsyncDaemon.local_path, "/r".
local_path == << <<"r">> >>

\* Raw paths: [abs |-> is it absolute, comps |-> its components]
RawPath(abs, comps) == [abs |-> abs, comps |-> comps]

_coerce_path(file_path) ==
    IF ~file_path.abs THEN resolve(local_path \o file_path.comps)
    ELSE resolve(file_path.comps)

RECURSIVE CommonLen(_, _)
CommonLen(a, b) ==
    IF a = <<>> \/ b = <<>> \/ a[1] # b[1] THEN 0 ELSE 1 + CommonLen(Tail(a), Tail(b))

_relative_path(path) ==
    IF IsPrefix(local_path, path)
    THEN as_posix(SubSeq(path, Len(local_path) + 1, Len(path)))
    ELSE LET k == CommonLen(local_path, path)
         IN as_posix([i \in 1..(Len(local_path) - k) |-> <<".", ".">>]
                     \o SubSeq(path, k + 1, Len(path)))

\* Path.name
PathName(path) == IF path = <<>> THEN <<>> ELSE path[Len(path)]

\* config.exclude_patterns of the modelled configuration: "t/" and "*.o"
exclude_patterns == << <<"t", "/">>, <<"*", ".", "o">> >>

PatternExcludes(pattern, rel_path, name) ==
    IF endswith_slash(pattern) THEN startswith(rel_path, rstrip_slash(pattern))
    ELSE IF \E i \in 1..Len(pattern) : pattern[i] = Star
         THEN fnmatch(rel_path, pattern) \/ fnmatch(name, pattern)
    ELSE rel_path = pattern \/ name = pattern

\* pattern.replace("\\", "/")
normalized_pattern(pattern) ==
    [i \in 1..Len(pattern) |-> IF pattern[i] = Backslash THEN Slash ELSE pattern[i]]

\* (a loop that gives up after its first rule)
should_exclude_first_rule(patterns, file_path) ==
    LET path == _coerce_path(file_path)
    IN  /\ Len(patterns) > 0
        /\ PatternExcludes(normalized_pattern(patterns[1]), _relative_path(path),
                           PathName(path))

\* should_exclude_file for the rule list `patterns`
should_exclude(patterns, file_path) ==
    LET path == _coerce_path(file_path)
        rel_path == _relative_path(path)
    IN  /\ Len(patterns) > 0
        /\ \E i \in 1..Len(patterns) :
               PatternExcludes(normalized_pattern(patterns[i]), rel_path, PathName(path))

should_exclude_file(file_path) == should_exclude(exclude_patterns, file_path)

\* What the watcher reports: absolute paths below the root.
FileA == RawPath(TRUE, local_path \o << <<"a">> >>)
FileT == RawPath(TRUE, local_path \o << <<"t">>, <<"c">> >>)
FileO == RawPath(TRUE, local_path \o << <<"c", ".", "o">> >>)
EventPaths == {FileA, FileT, FileO}

\* Three files created in the watched root, in this order.
FileB == RawPath(TRUE, local_path \o << <<"b">> >>)
FileC == RawPath(TRUE, local_path \o << <<"c">> >>)
CreatedFiles == <<FileA, FileB, FileC>>


(***************************************************************************)
(* State                                                                   *)
(***************************************************************************)
VARIABLES
    daemon,     \* d -> the fields of the CsyncDaemon object of invocation d
    thread,     \* d -> thread -> its position in the code and its locals
    registry,   \* signature -> DaemonInfo; the persisted records
    alive,      \* process ids that identify a live process
    now,        \* time.time()
    nticks,     \* clock advances so far
    nevents,    \* watcher events delivered so far
    owed,       \* d -> paths whose recording completed and no drain has returned yet
    registered  \* process ids for which a start_daemon call has persisted a record

vars == <<daemon, thread, registry, alive, now, nticks, nevents, owed, registered>>

ParentPid(d) == IF d = "d1" THEN 1 ELSE 3    \* the process that invokes start()
ChildPid(d) == IF d = "d1" THEN 2 ELSE 4     \* the process os.fork() creates

\* DaemonInfo.last_sync of a daemon that has not synced yet (None)
NoSync == -1

NoInfo == [pid |-> 0, local_path |-> <<>>, signature |-> <<>>,
           started_at |-> 0, sync_count |-> 0, last_sync |-> NoSync]

\* A thread at `pc` in the daemon's running phase (the main thread from the
\* initial sync on, the sync thread), with no locals set: the locals of
\* perform_sync and sync_loop, and the counter and time at the call of
\* perform_sync.
ThreadAt(pc) ==
    [pc |-> pc, changes |-> {}, rd |-> 0, arg_time |-> 0, arg_count |-> 0,
     wake |-> 0, ret |-> "none", raised |-> FALSE, pre_count |-> 0, pre_time |-> 0]

\* A thread at `pc` in start() before the daemon runs (the main thread, and
\* the parent after the fork), with its daemon_info.
StartAt(pc, info) == [pc |-> pc, info |-> info]

\* The watcher's thread at `pc`, handling the event for `path`.
ObsAt(pc, path) == [pc |-> pc, path |-> path]

\* CsyncDaemon.__init__
NewDaemon ==
    [is_running |-> FALSE, pending_changes |-> {}, last_sync_time |-> 0,
     sync_count |-> 0, sync_lock |-> "free", observer |-> "new",
     detach |-> FALSE, pid |-> 0, stdout_open |-> TRUE]

(***************************************************************************)
(* Process registry (csync.process_manager), modelled from the written    *)
(* specification                                                           *)
(***************************************************************************)
generate_signature(path) == <<"sig">> \o as_posix(path)

\* (a registry that takes every persisted record for live)
IsPersisted(reg, al, sig) == sig \in DOMAIN reg

\* A record is live if its process id identifies a live process.
IsLive(reg, al, sig) == sig \in DOMAIN reg /\ reg[sig].pid \in al

\* lookupByPath: the record, if its process is live; as a set of 0 or 1 records
get_daemon_by_path(reg, al, path) ==
    LET sig == generate_signature(path)
    IN  IF IsLive(reg, al, sig) THEN {reg[sig]} ELSE {}

\* lookupByPath reclaims a stale record of the path
ReclaimStale(reg, al, path) ==
    LET sig == generate_signature(path)
    IN  IF sig \in DOMAIN reg /\ ~IsLive(reg, al, sig)
        THEN [s \in DOMAIN reg \ {sig} |-> reg[s]]
        ELSE reg

\* register: refused while a live record of the path exists
CanRegister(reg, al, info) == ~IsLive(reg, al, info.signature)

start_daemon(reg, al, info) ==
    IF CanRegister(reg, al, info)
    THEN [s \in DOMAIN reg \cup {info.signature} |->
              IF s = info.signature THEN info ELSE reg[s]]
    ELSE reg

\* The pids with a persisted registration, after start_daemon(info).
Persisted(done, reg, al, info) ==
    IF CanRegister(reg, al, info) THEN done \cup {info.pid} ELSE done

\* updateStats: no-op if the record has disappeared
update_daemon_stats(reg, path, last_sync, sync_count) ==
    LET sig == generate_signature(path)
    IN  IF sig \in DOMAIN reg
        THEN [reg EXCEPT ![sig].last_sync = last_sync, ![sig].sync_count = sync_count]
        ELSE reg

\* unregister: idempotent
cleanup_daemon_files(reg, sig) == [s \in DOMAIN reg \ {sig} |-> reg[s]]

(***************************************************************************)
(* Initial states                                                          *)
(***************************************************************************)
InitWith(invoked) ==
    /\ daemon = [d \in Daemons |-> NewDaemon]
    /\ thread = [d \in Daemons |-> [t \in Threads |->
           IF t = "main" THEN StartAt(IF d \in invoked THEN "init" ELSE "off", NoInfo)
           ELSE IF t = "parent" THEN StartAt("off", NoInfo)
           ELSE IF t = "obs" THEN ObsAt("off", <<>>)
           ELSE ThreadAt("off")]]
    /\ registry = <<>>
    /\ alive = {}
    /\ now = StartClock
    /\ nticks = 0
    /\ nevents = 0
    /\ owed = [d \in Daemons |-> {}]
    /\ registered = {}

\* One daemon, with its threads, its watcher events and the clock.
Init == InitWith({"d1"})


(***************************************************************************)
(* start(): registration and detaching                                     *)
(***************************************************************************)
At(d, t, pc) == thread[d][t].pc = pc

\* (a start that does not look at the result of the look-up)
existing_ignored(existing) == FALSE

\* "if existing:": the look-up has returned a record
already_running(existing) == existing # {}

\* start(), from the look-up of an existing daemon to the creation of daemon_info
StartCheck(d, detach) ==
    /\ At(d, "main", "init")
    /\ LET existing == get_daemon_by_path(registry, alive, local_path)
           daemon_info == [pid |-> ParentPid(d), local_path |-> local_path,
                           signature |-> generate_signature(local_path),
                           started_at |-> now, sync_count |-> 0, last_sync |-> NoSync]
       IN  /\ registry' = ReclaimStale(registry, alive, local_path)
           /\ IF already_running(existing)
              THEN /\ thread' = [thread EXCEPT ![d]["main"].pc = "returned_false"]
                   /\ UNCHANGED <<daemon, alive>>
              ELSE /\ daemon' = [daemon EXCEPT ![d].observer = "scheduled",
                                               ![d].detach = detach,
                                               ![d].pid = ParentPid(d)]
                   /\ alive' = alive \cup {ParentPid(d)}
                   /\ thread' = [thread EXCEPT
                          ![d]["main"].pc = IF detach THEN "fork" ELSE "register",
                          ![d]["main"].info = daemon_info]
    /\ UNCHANGED <<now, nticks, nevents, owed, registered>>

\* (a child that keeps the daemon_info made before the fork)
info_of_parent(daemon_info, pid) == daemon_info

\* the child: "daemon_info.pid = os.getpid()"
info_of_child(daemon_info, pid) == [daemon_info EXCEPT !.pid = pid]

\* os.fork() succeeds: the parent goes on to register the child's pid and
\* return, the child goes on as the daemon
Fork(d) ==
    /\ At(d, "main", "fork")
    /\ alive' = alive \cup {ChildPid(d)}
    /\ daemon' = [daemon EXCEPT ![d].pid = ChildPid(d)]
    /\ thread' = [thread EXCEPT
           ![d]["parent"].pc = "par_register",
           ![d]["parent"].info = [thread[d]["main"].info EXCEPT !.pid = ChildPid(d)],
           ![d]["main"].pc = "register",
           ![d]["main"].info = info_of_child(thread[d]["main"].info, ChildPid(d))]
    /\ UNCHANGED <<registry, now, nticks, nevents, owed, registered>>

\* os.fork() raises OSError: start() returns False
ForkFails(d) ==
    /\ At(d, "main", "fork")
    /\ thread' = [thread EXCEPT ![d]["main"] = StartAt("returned_false", NoInfo)]
    /\ alive' = alive \ {ParentPid(d)}
    /\ UNCHANGED <<daemon, registry, now, nticks, nevents, owed, registered>>

\* the parent: start_daemon(daemon_info), return True; the invoking command ends
ParentRegister(d) ==
    /\ At(d, "parent", "par_register")
    /\ registry' = start_daemon(registry, alive, thread[d]["parent"].info)
    /\ registered' = Persisted(registered, registry, alive, thread[d]["parent"].info)
    /\ thread' = [thread EXCEPT ![d]["parent"] = StartAt("returned_true", NoInfo)]
    /\ alive' = alive \ {ParentPid(d)}
    /\ UNCHANGED <<daemon, now, nticks, nevents, owed>>

\* "Register daemon": start_daemon is called in detached mode only, and its
\* result is not used; then the signal handlers are set up
Register(d) ==
    /\ At(d, "main", "register")
    /\ registry' = IF daemon[d].detach
                   THEN start_daemon(registry, alive, thread[d]["main"].info)
                   ELSE registry
    /\ registered' = IF daemon[d].detach
                     THEN Persisted(registered, registry, alive, thread[d]["main"].info)
                     ELSE registered
    /\ thread' = [thread EXCEPT ![d]["main"].pc = "watch"]
    /\ UNCHANGED <<daemon, alive, now, nticks, nevents, owed>>

\* Thread t of daemon d is inside perform_sync.
InPerformSync(d, t) ==
    thread[d][t].pc \in {"gp_lock", "gp_clear", "push", "inc_write", "args", "stats"}

\* (a tick that goes to sleep without calling perform_sync)
SleepWithoutSync(d) == [ThreadAt("sleep") EXCEPT !.wake = now + TickSleep]

\* A thread enters perform_sync.
EnterSync(d) ==
    [ThreadAt("gp_lock") EXCEPT !.pre_count = daemon[d].sync_count,
                                !.pre_time = daemon[d].last_sync_time]

\* observer.start(), is_running = True, the sync thread is started, and the
\* main thread goes on to the initial sync
StartWatching(d) ==
    /\ At(d, "main", "watch")
    /\ daemon' = [daemon EXCEPT ![d].observer = "alive", ![d].is_running = TRUE]
    /\ thread' = [thread EXCEPT
           ![d]["obs"].pc = "idle",
           ![d]["sync"].pc = "loop",
           ![d]["main"] = EnterSync(d)]
    /\ UNCHANGED <<registry, alive, now, nticks, nevents, owed, registered>>


(***************************************************************************)
(* The watcher's thread: CsyncFileHandler.on_any_event, add_pending_change *)
(***************************************************************************)
\* (a lock that excludes nobody)
CanAcquireAnytime(lock) == TRUE

\* "with self.sync_lock": the lock can be taken when no thread holds it
CanAcquire(lock) == lock = "free"

\* (a handler that records every event it is given)
EventRecorded(d, src_path, is_directory) ==
    [thread EXCEPT ![d]["obs"].pc = "add_lock",
                   ![d]["obs"].path = _coerce_path(src_path)]

\* The threads after on_any_event has run up to the call of
\* add_pending_change: directory events and excluded paths are dropped
EventHandled(d, src_path, is_directory) ==
    IF is_directory \/ should_exclude_file(src_path)
    THEN thread
    ELSE [thread EXCEPT ![d]["obs"].pc = "add_lock",
                        ![d]["obs"].path = _coerce_path(src_path)]

\* on_any_event up to the call of add_pending_change: directory events and
\* excluded paths are dropped
on_any_event(d, src_path, is_directory) ==
    /\ At(d, "obs", "idle")
    /\ daemon[d].observer = "alive"
    /\ nevents < MaxEvents
    /\ nevents' = nevents + 1
    /\ thread' = EventHandled(d, src_path, is_directory)
    /\ UNCHANGED <<daemon, registry, alive, now, nticks, owed, registered>>

\* add_pending_change: with the lock held, the path is added
add_pending_change(d) ==
    /\ At(d, "obs", "add_lock")
    /\ CanAcquire(daemon[d].sync_lock)
    /\ daemon' = [daemon EXCEPT ![d].pending_changes = @ \cup {thread[d]["obs"].path}]
    /\ owed' = [owed EXCEPT ![d] = @ \cup {thread[d]["obs"].path}]
    /\ thread' = [thread EXCEPT ![d]["obs"] = ObsAt("idle", <<>>)]
    /\ UNCHANGED <<registry, alive, now, nticks, nevents, registered>>

(***************************************************************************)
(* perform_sync, run by the main thread (the initial sync) and by the     *)
(* sync thread (sync_loop)                                                 *)
(***************************************************************************)
\* self.pending_changes.clear()
AfterClear(pending) == {}

\* self.console.print(...) raises (ValueError: I/O operation on closed file)
\* once the process has closed sys.stdout
console_print_raises(d) == ~daemon[d].stdout_open

\* The thread after a console.print inside perform_sync's try block: if the
\* print raises, the handler's own print ("Sync error", in the except block)
\* raises as well and the exception leaves perform_sync; in sync_loop it
\* reaches the loop's handler, whose print ("Daemon error") raises in turn, so
\* the exception leaves sync_loop and the thread ends.  Otherwise the thread
\* goes on as `normal`.
AfterPrint(d, normal) ==
    IF console_print_raises(d) THEN ThreadAt("crashed") ELSE normal

\* get_pending_changes: the lock is taken and the set copied
GetPendingCopy(d, t) ==
    /\ At(d, t, "gp_lock")
    /\ CanAcquire(daemon[d].sync_lock)
    /\ daemon' = [daemon EXCEPT ![d].sync_lock = t]
    /\ thread' = [thread EXCEPT ![d][t].pc = "gp_clear",
                                ![d][t].changes = daemon[d].pending_changes]
    /\ UNCHANGED <<registry, alive, now, nticks, nevents, owed, registered>>

\* get_pending_changes: the set is cleared, the lock released, the copy
\* returned; perform_sync prints what it is about to sync
GetPendingClear(d, t) ==
    /\ At(d, t, "gp_clear")
    /\ daemon' = [daemon EXCEPT
           ![d].pending_changes = AfterClear(daemon[d].pending_changes),
           ![d].sync_lock = "free"]
    /\ owed' = [owed EXCEPT ![d] = @ \ thread[d][t].changes]
    /\ thread' = [thread EXCEPT ![d][t] =
                      AfterPrint(d, [thread[d][t] EXCEPT !.pc = "push"])]
    /\ UNCHANGED <<registry, alive, now, nticks, nevents, registered>>

\* rsync_wrapper.push returns True; "self.sync_count += 1" reads the counter
PushSucceeds(d, t) ==
    /\ At(d, t, "push")
    /\ thread' = [thread EXCEPT ![d][t].pc = "inc_write",
                                ![d][t].rd = daemon[d].sync_count]
    /\ UNCHANGED <<daemon, registry, alive, now, nticks, nevents, owed, registered>>

\* (a failure path that puts the drained paths back)
pending_requeued(pending, changes) == pending \cup changes

\* The pending set after a failed pass: the failure paths of perform_sync do
\* not touch it.
pending_after_failure(pending, changes) == pending

\* rsync_wrapper.push returns False: perform_sync returns False
PushFails(d, t) ==
    /\ At(d, t, "push")
    /\ daemon' = [daemon EXCEPT ![d].pending_changes =
                      pending_after_failure(@, thread[d][t].changes)]
    /\ thread' = [thread EXCEPT ![d][t] =
                      AfterPrint(d, [thread[d][t] EXCEPT !.pc = "ret", !.ret = "False"])]
    /\ UNCHANGED <<registry, alive, now, nticks, nevents, owed, registered>>

\* rsync_wrapper.push raises (an OSError that push does not catch): caught by
\* perform_sync's handler, which returns False
PushRaises(d, t) ==
    /\ At(d, t, "push")
    /\ daemon' = [daemon EXCEPT ![d].pending_changes =
                      pending_after_failure(@, thread[d][t].changes)]
    /\ thread' = [thread EXCEPT ![d][t] =
                      AfterPrint(d, [thread[d][t] EXCEPT !.pc = "ret", !.ret = "False",
                                                         !.raised = TRUE])]
    /\ UNCHANGED <<registry, alive, now, nticks, nevents, owed, registered>>

\* "self.sync_count += 1" writes the counter; self.last_sync_time = time.time()
IncWrite(d, t) ==
    /\ At(d, t, "inc_write")
    /\ daemon' = [daemon EXCEPT ![d].sync_count = thread[d][t].rd + 1,
                                ![d].last_sync_time = now]
    /\ thread' = [thread EXCEPT ![d][t].pc = "args"]
    /\ UNCHANGED <<registry, alive, now, nticks, nevents, owed, registered>>

\* the arguments of update_daemon_stats are read from the daemon's fields
StatsArgs(d, t) ==
    /\ At(d, t, "args")
    /\ thread' = [thread EXCEPT ![d][t].pc = "stats",
                                ![d][t].arg_time = daemon[d].last_sync_time,
                                ![d][t].arg_count = daemon[d].sync_count]
    /\ UNCHANGED <<daemon, registry, alive, now, nticks, nevents, owed, registered>>

\* update_daemon_stats returns: perform_sync returns True
StatsUpdated(d, t) ==
    /\ At(d, t, "stats")
    /\ registry' = update_daemon_stats(registry, local_path,
                                       thread[d][t].arg_time, thread[d][t].arg_count)
    /\ thread' = [thread EXCEPT ![d][t] =
                      AfterPrint(d, [thread[d][t] EXCEPT !.pc = "ret", !.ret = "True"])]
    /\ UNCHANGED <<daemon, alive, now, nticks, nevents, owed, registered>>

\* update_daemon_stats raises (the registry's storage is unavailable): caught
\* by perform_sync's handler, which returns False
StatsRaises(d, t) ==
    /\ At(d, t, "stats")
    /\ daemon' = [daemon EXCEPT ![d].pending_changes =
                      pending_after_failure(@, thread[d][t].changes)]
    /\ thread' = [thread EXCEPT ![d][t] =
                      AfterPrint(d, [thread[d][t] EXCEPT !.pc = "ret", !.ret = "False",
                                                         !.raised = TRUE])]
    /\ UNCHANGED <<registry, alive, now, nticks, nevents, owed, registered>>


(***************************************************************************)
(* sync_loop, run by the sync thread                                       *)
(***************************************************************************)
\* (comparisons that are not strict)
should_sync_now_nonstrict(current_time, last_sync_time, pending_changes) ==
    \/ current_time - last_sync_time >= max_sync_interval
    \/ (pending_changes # {} /\ current_time - last_sync_time >= sync_delay)

\* (a debounce window that restarts with every recorded event: pending
\* changes alone never trigger)
should_sync_now_forced_only(current_time, last_sync_time, pending_changes) ==
    current_time - last_sync_time > max_sync_interval

\* (a trigger without the forced part)
should_sync_now_pending_only(current_time, last_sync_time, pending_changes) ==
    pending_changes # {} /\ current_time - last_sync_time > sync_delay

should_sync_now(current_time, last_sync_time, pending_changes) ==
    \/ current_time - last_sync_time > max_sync_interval
    \/ (pending_changes # {} /\ current_time - last_sync_time > sync_delay)

ShouldSyncNow(d) ==
    should_sync_now(now, daemon[d].last_sync_time, daemon[d].pending_changes)

\* "while self.is_running" ends the loop
LoopExits(d) ==
    /\ At(d, "sync", "loop")
    /\ ~daemon[d].is_running
    /\ thread' = [thread EXCEPT ![d]["sync"].pc = "exited"]
    /\ UNCHANGED <<daemon, registry, alive, now, nticks, nevents, owed, registered>>

\* a tick at which should_sync_now() is true: perform_sync is called
LoopTriggers(d) ==
    /\ At(d, "sync", "loop")
    /\ daemon[d].is_running
    /\ ShouldSyncNow(d)
    /\ thread' = [thread EXCEPT ![d]["sync"] = EnterSync(d)]
    /\ UNCHANGED <<daemon, registry, alive, now, nticks, nevents, owed, registered>>

\* a tick at which should_sync_now() is false: time.sleep(1.0)
LoopIdles(d) ==
    /\ At(d, "sync", "loop")
    /\ daemon[d].is_running
    /\ ~ShouldSyncNow(d)
    /\ thread' = [thread EXCEPT ![d]["sync"].pc = "sleep",
                                ![d]["sync"].wake = now + TickSleep]
    /\ UNCHANGED <<daemon, registry, alive, now, nticks, nevents, owed, registered>>

\* perform_sync has returned to sync_loop (its result is not used):
\* time.sleep(1.0).  perform_sync catches every Exception of the transfer and
\* of the registry update itself; the only exception that leaves it is that
\* of a console.print on a closed sys.stdout, and then the print of the loop's
\* own handler raises before its time.sleep(5.0) (see AfterPrint), so that
\* sleep is never reached.
SyncReturns(d) ==
    /\ At(d, "sync", "ret")
    /\ thread' = [thread EXCEPT ![d]["sync"] =
                      [ThreadAt("sleep") EXCEPT !.wake = now + TickSleep]]
    /\ UNCHANGED <<daemon, registry, alive, now, nticks, nevents, owed, registered>>

\* time.sleep is over
WakeUp(d) ==
    /\ At(d, "sync", "sleep")
    /\ now >= thread[d]["sync"].wake
    /\ thread' = [thread EXCEPT ![d]["sync"] = ThreadAt("loop")]
    /\ UNCHANGED <<daemon, registry, alive, now, nticks, nevents, owed, registered>>

(***************************************************************************)
(* start() after the initial sync, and stop()                              *)
(***************************************************************************)
\* the initial perform_sync has returned: in detached mode sys.stdout and
\* sys.stderr are closed; the main thread waits,
\* "while self.is_running: time.sleep(...)"
MainReturns(d) ==
    /\ At(d, "main", "ret")
    /\ daemon' = [daemon EXCEPT ![d].stdout_open = IF daemon[d].detach THEN FALSE ELSE @]
    /\ thread' = [thread EXCEPT ![d]["main"] = ThreadAt("wait")]
    /\ UNCHANGED <<registry, alive, now, nticks, nevents, owed, registered>>

\* KeyboardInterrupt while the main thread is in the initial perform_sync:
\* it is no Exception, so perform_sync's handler lets it pass, and the call at
\* the end of start() is outside the try blocks of the wait loops: start()
\* ends with the exception, stop() is not called, and the process ends with
\* its threads (a lock held by the main thread is released on the way out)
InterruptInSync(d) ==
    /\ InPerformSync(d, "main") \/ At(d, "main", "ret")
    /\ daemon' = [daemon EXCEPT ![d].sync_lock =
                      IF @ = "main" THEN "free" ELSE @]
    /\ alive' = alive \ {daemon[d].pid}
    /\ thread' = [thread EXCEPT ![d]["main"] = ThreadAt("interrupted"),
                                ![d]["sync"] = ThreadAt("off"),
                                ![d]["obs"] = ObsAt("off", <<>>)]
    /\ UNCHANGED <<registry, now, nticks, nevents, owed, registered>>

\* KeyboardInterrupt in the wait loop: start() goes on to self.stop(), which
\* sets self.is_running = False
Interrupt(d) ==
    /\ At(d, "main", "wait")
    /\ daemon' = [daemon EXCEPT ![d].is_running = FALSE]
    /\ thread' = [thread EXCEPT ![d]["main"].pc = "stop_join"]
    /\ UNCHANGED <<registry, alive, now, nticks, nevents, owed, registered>>

\* stop(): observer.stop() and observer.join(), which waits for the handler
\* call in progress
StopObserver(d) ==
    /\ At(d, "main", "stop_join")
    /\ At(d, "obs", "idle")
    /\ daemon' = [daemon EXCEPT ![d].observer = "stopped"]
    /\ thread' = [thread EXCEPT ![d]["main"].pc = "stop_cleanup",
                                ![d]["obs"].pc = "off"]
    /\ UNCHANGED <<registry, alive, now, nticks, nevents, owed, registered>>

\* stop(): cleanup_daemon_files(self.signature)
StopCleanup(d) ==
    /\ At(d, "main", "stop_cleanup")
    /\ registry' = cleanup_daemon_files(registry, generate_signature(local_path))
    /\ thread' = [thread EXCEPT ![d]["main"].pc = "stopped"]
    /\ UNCHANGED <<daemon, alive, now, nticks, nevents, owed, registered>>

\* stop() prints "Daemon stopped" and returns, start() returns True (on a
\* closed sys.stdout the print raises and start() ends with that exception)
\* and the process ends; the sync thread, a daemon thread, ends with it
\* wherever it is
ProcessExit(d) ==
    /\ At(d, "main", "stopped")
    /\ alive' = alive \ {daemon[d].pid}
    /\ thread' = [thread EXCEPT ![d]["main"] =
                      ThreadAt(IF console_print_raises(d) THEN "raised"
                               ELSE "returned_true"),
                                ![d]["sync"] = ThreadAt("off")]
    /\ UNCHANGED <<daemon, registry, now, nticks, nevents, owed, registered>>

\* The daemon's process is killed outright (SIGKILL, a crash): nothing of
\* stop() runs, and its record stays in the registry
Kill(d) ==
    /\ daemon[d].is_running
    /\ daemon[d].pid \in alive
    /\ alive' = alive \ {daemon[d].pid}
    /\ thread' = [thread EXCEPT ![d]["main"] = ThreadAt("killed"),
                                ![d]["sync"] = ThreadAt("off"),
                                ![d]["obs"] = ObsAt("off", <<>>)]
    /\ UNCHANGED <<daemon, registry, now, nticks, nevents, owed, registered>>

(***************************************************************************)
(* The clock                                                               *)
(***************************************************************************)
\* Time is seen to pass while a thread sleeps or waits for rsync; the other
\* statements take no time.
TimePasses ==
    \E d \in Daemons, t \in SyncThreads : thread[d][t].pc \in {"sleep", "push"}

Tick(dt) ==
    /\ nticks < MaxTicks
    /\ TimePasses
    /\ nticks' = nticks + 1
    /\ now' = now + dt
    /\ UNCHANGED <<daemon, thread, registry, alive, nevents, owed, registered>>

(***************************************************************************)
(* Specifications                                                          *)
(***************************************************************************)
StartStep(d) ==
    \/ \E detach \in BOOLEAN : StartCheck(d, detach)
    \/ Fork(d)
    \/ ForkFails(d)
    \/ ParentRegister(d)
    \/ Register(d)
    \/ StartWatching(d)

PerformSyncStep(d, t) ==
    \/ GetPendingCopy(d, t)
    \/ GetPendingClear(d, t)
    \/ PushSucceeds(d, t)
    \/ PushFails(d, t)
    \/ PushRaises(d, t)
    \/ IncWrite(d, t)
    \/ StatsArgs(d, t)
    \/ StatsUpdated(d, t)
    \/ StatsRaises(d, t)

LoopStep(d) ==
    \/ LoopExits(d)
    \/ LoopTriggers(d)
    \/ LoopIdles(d)
    \/ SyncReturns(d)
    \/ WakeUp(d)

StopStep(d) ==
    \/ MainReturns(d)
    \/ InterruptInSync(d)
    \/ Interrupt(d)
    \/ StopObserver(d)
    \/ StopCleanup(d)
    \/ ProcessExit(d)

WatcherStep(d) ==
    \/ \E p \in EventPaths, is_directory \in BOOLEAN : on_any_event(d, p, is_directory)
    \/ add_pending_change(d)

Next ==
    \/ \E d \in Daemons : StartStep(d)
    \/ \E d \in Daemons, t \in SyncThreads : PerformSyncStep(d, t)
    \/ \E d \in Daemons : LoopStep(d)
    \/ \E d \in Daemons : StopStep(d)
    \/ \E d \in Daemons : WatcherStep(d)
    \/ \E dt \in ClockSteps : Tick(dt)

Spec == Init /\ [][Next]_vars

\* Two start() invocations for the same path, by two processes, in any
\* interleaving; a daemon process may be killed.  The remote is out of reach
\* (every transfer fails), there are no watcher events, and the clock stands
\* still.
InitStart == InitWith(Daemons)

NextStart ==
    \/ \E d \in Daemons : StartStep(d)
    \/ \E d \in Daemons, t \in SyncThreads :
           GetPendingCopy(d, t) \/ GetPendingClear(d, t) \/ PushFails(d, t)
    \/ \E d \in Daemons : LoopExits(d) \/ LoopTriggers(d) \/ SyncReturns(d)
    \/ \E d \in Daemons : StopStep(d)
    \/ \E d \in Daemons : Kill(d)

SpecStart == InitStart /\ [][NextStart]_vars


\* The trigger condition alone: a running daemon whose sync thread is at the
\* top of its loop, for every last sync time, clock value and pending set of
\* the bounds; the one step is the tick.
MaxElapsed == 302

InitTrigger ==
    \E last \in {0, StartClock}, clock \in StartClock..(StartClock + MaxElapsed),
       pending \in SUBSET {_coerce_path(FileA)} :
        /\ daemon = [d \in Daemons |->
               IF d = "d1"
               THEN [NewDaemon EXCEPT !.is_running = TRUE, !.observer = "alive",
                                      !.pid = ParentPid(d), !.last_sync_time = last,
                                      !.pending_changes = pending]
               ELSE NewDaemon]
        /\ thread = [d \in Daemons |-> [t \in Threads |->
               IF t = "parent" THEN StartAt("off", NoInfo)
               ELSE IF t = "obs" THEN ObsAt(IF d = "d1" THEN "idle" ELSE "off", <<>>)
               ELSE IF d # "d1" THEN (IF t = "main" THEN StartAt("off", NoInfo)
                                      ELSE ThreadAt("off"))
               ELSE IF t = "main" THEN ThreadAt("wait")
               ELSE ThreadAt("loop")]]
        /\ registry = <<>>
        /\ alive = {ParentPid("d1")}
        /\ now = clock
        /\ nticks = 0
        /\ nevents = 0
        /\ owed = [d \in Daemons |-> IF d = "d1" THEN pending ELSE {}]
        /\ registered = {}

NextTrigger == \E d \in Daemons : LoopTriggers(d) \/ LoopIdles(d)

SpecTrigger == InitTrigger /\ [][NextTrigger]_vars

\* End to end: one foreground daemon on an empty directory, every transfer
\* and registry update succeeds.  Once start() has done its initial sync and
\* no pass is running, the three files are created within CreateWindow
\* seconds of the start; the clock then runs on, one second at a time, to
\* EndToEndSeconds after the start.
CreateWindow == 1
EndToEndSeconds == 7

CreateFile(d) ==
    /\ nevents < Len(CreatedFiles)
    /\ now <= StartClock + CreateWindow
    /\ At(d, "main", "wait")
    /\ thread[d]["sync"].pc \in {"loop", "sleep"}
    /\ At(d, "obs", "idle")
    /\ daemon[d].observer = "alive"
    /\ nevents' = nevents + 1
    /\ thread' = EventHandled(d, CreatedFiles[nevents + 1], FALSE)
    /\ UNCHANGED <<daemon, registry, alive, now, nticks, owed, registered>>

\* The clock leaves the creation window only when the three files have been
\* created and recorded.
SecondPasses ==
    /\ now < StartClock + EndToEndSeconds
    /\ TimePasses
    /\ now + 1 > StartClock + CreateWindow
           => /\ nevents = Len(CreatedFiles)
              /\ \A d \in Daemons : ~At(d, "obs", "add_lock")
    /\ now' = now + 1
    /\ UNCHANGED <<daemon, thread, registry, alive, nticks, nevents, owed, registered>>

NextEndToEnd ==
    \/ \E d \in Daemons : StartCheck(d, FALSE) \/ Register(d) \/ StartWatching(d)
    \/ \E d \in Daemons, t \in SyncThreads :
           \/ GetPendingCopy(d, t) \/ GetPendingClear(d, t) \/ PushSucceeds(d, t)
           \/ IncWrite(d, t) \/ StatsArgs(d, t) \/ StatsUpdated(d, t)
    \/ \E d \in Daemons : LoopTriggers(d) \/ LoopIdles(d) \/ SyncReturns(d) \/ WakeUp(d)
    \/ \E d \in Daemons : MainReturns(d)
    \/ \E d \in Daemons : CreateFile(d) \/ add_pending_change(d)
    \/ SecondPasses

SpecEndToEnd == Init /\ [][NextEndToEnd]_vars

\* The exclusion matcher alone: the watcher's handler is about to call
\* should_exclude_file for a file below the root, for every rule list and
\* every relative path of the bounds; the one step is the call.
MaxPatternLen == 3
MaxPathLen == 5

\* Path(text).parts for a relative path
RECURSIVE PartsOnto(_, _, _)
PartsOnto(done, part, rest) ==
    IF rest = <<>> THEN Append(done, part)
    ELSE IF rest[1] = Slash THEN PartsOnto(Append(done, part), <<>>, Tail(rest))
    ELSE PartsOnto(done, Append(part, rest[1]), Tail(rest))

Parts(text) == PartsOnto(<<>>, <<>>, text)

Texts(alphabet, n) == UNION {[1..k -> alphabet] : k \in 1..n}

\* Rules: texts of "b", "c", "/", "*" and "?"; a rule list holds one rule,
\* alone or after or before the rule "c", or no rule at all.
RuleTexts == Texts({"b", "c", Slash, Star, QMark}, MaxPatternLen)
RuleLists ==
    {<<>>} \cup {<<r>> : r \in RuleTexts}
           \cup {<< <<"c">>, r >> : r \in RuleTexts}
           \cup {<< r, <<"c">> >> : r \in RuleTexts}

\* Relative paths of files: names of "b" and "c", separated by single slashes.
RelativeTexts ==
    {s \in Texts({"b", "c", Slash}, MaxPathLen) :
        \A i \in 1..Len(Parts(s)) : Parts(s)[i] # <<>>}

InitExclude ==
    \E rules \in RuleLists, text \in RelativeTexts :
        /\ daemon = [d \in Daemons |-> NewDaemon]
        /\ thread = [d \in Daemons |-> [t \in Threads |->
               IF t = "obs"
               THEN (IF d = "d1"
                     THEN [pc |-> "check", rules |-> rules,
                           path |-> RawPath(TRUE, local_path \o Parts(text))]
                     ELSE ObsAt("off", <<>>))
               ELSE IF t \in SyncThreads /\ t # "main" THEN ThreadAt("off")
               ELSE StartAt("off", NoInfo)]]
        /\ registry = <<>>
        /\ alive = {}
        /\ now = StartClock
        /\ nticks = 0
        /\ nevents = 0
        /\ owed = [d \in Daemons |-> {}]
        /\ registered = {}

\* on_any_event: "if self.daemon.should_exclude_file(normalized_path)"
ExcludeCheck(d) ==
    /\ At(d, "obs", "check")
    /\ thread' = [thread EXCEPT ![d]["obs"].pc =
                      IF should_exclude(thread[d]["obs"].rules, thread[d]["obs"].path)
                      THEN "excluded" ELSE "kept"]
    /\ UNCHANGED <<daemon, registry, alive, now, nticks, nevents, owed, registered>>

NextExclude == \E d \in Daemons : ExcludeCheck(d)

SpecExclude == InitExclude /\ [][NextExclude]_vars

\* The signature alone: two daemon objects are created from configurations
\* whose local_path is spelled in any way of the bounds (absolute or relative
\* to the working directory, with "." and "..", through a symbolic link, with
\* or without a final slash); the one step is the creation of a daemon.  The
\* file system has the directories /r and /r/s and the symbolic link
\* /l -> /r/s; the working directory is /r.
MaxSpellingLen == 2

Dot == <<".">>
DotDot == <<".", ".">>
WorkingDirectory == << <<"r">> >>
LinkPath == << <<"l">> >>
LinkTarget == << <<"r">>, <<"s">> >>

\* os.path.normpath on the components of an absolute path: "." is dropped and
\* ".." removes the component before it, whatever that component is
RECURSIVE normpath_onto(_, _)
normpath_onto(done, rest) ==
    IF rest = <<>> THEN done
    ELSE IF rest[1] = Dot THEN normpath_onto(done, Tail(rest))
    ELSE IF rest[1] = DotDot
         THEN normpath_onto(IF done = <<>> THEN <<>> ELSE SubSeq(done, 1, Len(done) - 1),
                            Tail(rest))
    ELSE normpath_onto(Append(done, rest[1]), Tail(rest))

\* os.path.abspath: normpath(join(os.getcwd(), path))
abspath(path) ==
    normpath_onto(<<>>, IF path.abs THEN path.comps ELSE WorkingDirectory \o path.comps)

\* The canonical path: the components are followed one by one from the root,
\* a symbolic link is replaced by its target when it is met, and ".." leaves
\* the directory reached so far
RECURSIVE realpath_onto(_, _)
realpath_onto(done, rest) ==
    IF rest = <<>> THEN done
    ELSE IF rest[1] = Dot THEN realpath_onto(done, Tail(rest))
    ELSE IF rest[1] = DotDot
         THEN realpath_onto(IF done = <<>> THEN <<>> ELSE SubSeq(done, 1, Len(done) - 1),
                            Tail(rest))
    ELSE IF Append(done, rest[1]) = LinkPath
         THEN realpath_onto(<<>>, LinkTarget \o Tail(rest))
    ELSE realpath_onto(Append(done, rest[1]), Tail(rest))

\* Path(text).resolve() of an absolute path
resolve_links(comps) == realpath_onto(<<>>, comps)

\* CsyncConfig.__post_init__: local_path is made absolute and ends with "/"
config_local_path(path) == [abs |-> TRUE, comps |-> abspath(path), slash |-> TRUE]

\* CsyncDaemon.__init__: self.local_path; the final slash is no part of a Path
daemon_local_path(path) == resolve_links(config_local_path(path).comps)

\* The spellings of local_path in a configuration file
Spellings ==
    [abs : BOOLEAN, slash : BOOLEAN,
     comps : UNION {[1..k -> {<<"r">>, <<"s">>, <<"l">>, Dot, DotDot}] : k \in 1..MaxSpellingLen}]

InitSignature ==
    \E spelling \in [Daemons -> Spellings] :
        /\ daemon = [d \in Daemons |-> NewDaemon]
        /\ thread = [d \in Daemons |-> [t \in Threads |->
               IF t = "main" THEN [pc |-> "config", spelling |-> spelling[d]]
               ELSE IF t = "parent" THEN StartAt("off", NoInfo)
               ELSE IF t = "obs" THEN ObsAt("off", <<>>)
               ELSE ThreadAt("off")]]
        /\ registry = <<>>
        /\ alive = {}
        /\ now = StartClock
        /\ nticks = 0
        /\ nevents = 0
        /\ owed = [d \in Daemons |-> {}]
        /\ registered = {}

\* CsyncDaemon(config): local_path and signature
Construct(d) ==
    /\ At(d, "main", "config")
    /\ thread' = [thread EXCEPT ![d]["main"] =
           [pc |-> "constructed", spelling |-> thread[d]["main"].spelling,
            local_path |-> daemon_local_path(thread[d]["main"].spelling),
            signature |-> generate_signature(daemon_local_path(thread[d]["main"].spelling))]]
    /\ UNCHANGED <<daemon, registry, alive, now, nticks, nevents, owed, registered>>

NextSignature == \E d \in Daemons : Construct(d)

SpecSignature == InitSignature /\ [][NextSignature]_vars

\* The operator's commands alone (cli.py: stop, daemon-status): each
\* invocation runs one command against a registry that holds, for the paths
\* /r and /q, no record, a record of a live process, a record of a dead
\* process (stale), or a record that cannot be read (malformed).  A final
\* slash of a path text is written as an empty last component.
OtherPath == << <<"q">> >>
RegistryPaths == {local_path, OtherPath}

\* The process id recorded for a path
PidOf(path) == IF path = local_path THEN ChildPid("d1") ELSE ChildPid("d2")

\* A record that cannot be read back has no process id
MalformedPid == 0

RecordOf(path, pid, count) ==
    [pid |-> pid, local_path |-> path, signature |-> generate_signature(path),
     started_at |-> StartClock, sync_count |-> count,
     last_sync |-> IF count = 0 THEN NoSync ELSE StartClock]

\* The records a path can have in the registry's storage (none, or one)
StoredRecords(path) ==
    {{}} \cup {{RecordOf(path, pid, count)} :
                  pid \in {PidOf(path), MalformedPid}, count \in 0..1}

\* What the stop command is asked to stop: cli.py computes
\* os.path.abspath(--path), the configuration's local_path (which ends with a
\* slash), or os.path.abspath(".")
WithFinalSlash(path) == path \o << <<>> >>
StopTargets == {local_path, OtherPath, WithFinalSlash(local_path)}

InitAdmin ==
    \E recs \in [RegistryPaths -> UNION {StoredRecords(path) : path \in RegistryPaths}],
       living \in SUBSET {PidOf(path) : path \in RegistryPaths} :
        /\ \A path \in RegistryPaths : recs[path] \in StoredRecords(path)
        /\ registry = [sig \in {generate_signature(path) :
                                   path \in {q \in RegistryPaths : recs[q] # {}}} |->
                           CHOOSE r \in UNION {recs[q] : q \in RegistryPaths} :
                               r.signature = sig]
        /\ alive = living
        /\ daemon = [d \in Daemons |-> NewDaemon]
        /\ thread = [d \in Daemons |-> [t \in Threads |->
               IF t = "main" THEN [pc |-> "cli"]
               ELSE IF t = "parent" THEN StartAt("off", NoInfo)
               ELSE IF t = "obs" THEN ObsAt("off", <<>>)
               ELSE ThreadAt("off")]]
        /\ now = StartClock
        /\ nticks = 0
        /\ nevents = 0
        /\ owed = [d \in Daemons |-> {}]
        /\ registered = {}

\* requestStop locates the live record of the path
stop_target(reg, al, path) == get_daemon_by_path(reg, al, path)

\* (a command that ends with status 0 whatever stop_daemon returns)
exit_status_zero(success) == 0

\* cli.py stop: "if not success: raise typer.Exit(1)"
stop_exit_status(success) == IF success THEN 0 ELSE 1

\* cli.py stop: process_manager.stop_daemon(target_path, force); the command
\* ends with exit status 1 (typer.Exit(1)) if no daemon was found.  A found
\* daemon is sent the signal, which is delivered later.
StopCommand(d, target_path, force) ==
    /\ At(d, "main", "cli")
    /\ LET found == stop_target(registry, alive, target_path)
       IN  /\ registry' = ReclaimStale(registry, alive, target_path)
           /\ thread' = [thread EXCEPT ![d]["main"] =
                  [pc |-> "stop_done", target_path |-> target_path, force |-> force,
                   success |-> found # {},
                   exit_status |-> stop_exit_status(found # {}),
                   signalled |-> {r.pid : r \in found}]]
    /\ UNCHANGED <<daemon, alive, now, nticks, nevents, owed, registered>>

\* The signal reaches the daemon's process: a forceful stop ends it at once
\* and leaves its record; on a graceful stop the daemon runs its stop path,
\* which unregisters (cleanup_daemon_files), and ends.
SignalDelivered(d) ==
    /\ At(d, "main", "stop_done")
    /\ thread[d]["main"].signalled # {}
    /\ alive' = alive \ thread[d]["main"].signalled
    /\ registry' = IF thread[d]["main"].force THEN registry
                   ELSE cleanup_daemon_files(registry,
                            generate_signature(thread[d]["main"].target_path))
    /\ thread' = [thread EXCEPT ![d]["main"].signalled = {}]
    /\ UNCHANGED <<daemon, now, nticks, nevents, owed, registered>>

\* listLive: the records whose process id identifies a live process
list_running_daemons(reg, al) == {reg[sig] : sig \in {x \in DOMAIN reg : IsLive(reg, al, x)}}

\* listLive reclaims the stale records; a record that cannot be read is
\* skipped
ReclaimAllStale(reg, al) ==
    [sig \in {x \in DOMAIN reg : IsLive(reg, al, x) \/ reg[x].pid = MalformedPid} |->
         reg[sig]]

\* daemon-status: one table row per listed daemon; "Never" for a last_sync
\* that is None or 0
StatusRow(info) ==
    [pid |-> info.pid, local_path |-> info.local_path, started |-> info.started_at,
     syncs |-> info.sync_count,
     last_sync |-> IF info.last_sync = NoSync \/ info.last_sync = 0
                   THEN "Never" ELSE "at"]

\* (a table without rows)
no_rows(running_daemons) == {}

\* daemon_status: "for daemon_info in running_daemons.values()"
status_rows(running_daemons) == {StatusRow(info) : info \in running_daemons}

\* cli.py daemon_status: list_running_daemons(), then the table
StatusCommand(d) ==
    /\ At(d, "main", "cli")
    /\ LET running_daemons == list_running_daemons(registry, alive)
       IN  /\ registry' = ReclaimAllStale(registry, alive)
           /\ thread' = [thread EXCEPT ![d]["main"] =
                  [pc |-> "status_done", listed |-> running_daemons,
                   rows |-> status_rows(running_daemons),
                   exit_status |-> 0,
                   reclaimed |-> DOMAIN registry \ DOMAIN ReclaimAllStale(registry, alive)]]
    /\ UNCHANGED <<daemon, alive, now, nticks, nevents, owed, registered>>

NextAdmin ==
    \/ \E d \in Daemons, target_path \in StopTargets, force \in BOOLEAN :
           StopCommand(d, target_path, force)
    \/ \E d \in Daemons : SignalDelivered(d)
    \/ \E d \in Daemons : StatusCommand(d)

SpecAdmin == InitAdmin /\ [][NextAdmin]_vars

\* Recording alone: add_pending_change is called on a running daemon with
\* raw paths that spell the files /r/a and /r/b in several ways, absolute
\* and relative to the watched root; the sync thread drains (every transfer
\* fails, so that the next tick drains again).
MaxRecordings == 3

PathA == local_path \o << <<"a">> >>
PathB == local_path \o << <<"b">> >>

FileASpellings ==
    {RawPath(TRUE, PathA),
     RawPath(FALSE, << <<"a">> >>),
     RawPath(FALSE, << <<".">>, <<"a">> >>),
     RawPath(FALSE, << <<"b">>, <<".", ".">>, <<"a">> >>),
     RawPath(TRUE, local_path \o << <<"b">>, <<".", ".">>, <<"a">> >>)}

FileBSpellings == {RawPath(TRUE, PathB), RawPath(FALSE, << <<"b">> >>)}

RecordSpellings == FileASpellings \cup FileBSpellings

\* The file a raw path names
NamedFile(file_path) == IF file_path \in FileASpellings THEN PathA ELSE PathB

\* (a path kept as it was given)
path_as_given(file_path) == file_path.comps

\* add_pending_change(file_path): path = self._coerce_path(file_path)
coerced(file_path) == _coerce_path(file_path)

InitRecord ==
    /\ daemon = [d \in Daemons |->
           IF d = "d1"
           THEN [NewDaemon EXCEPT !.is_running = TRUE, !.observer = "alive",
                                  !.pid = ParentPid(d)]
           ELSE NewDaemon]
    /\ thread = [d \in Daemons |-> [t \in Threads |->
           IF t = "parent" THEN StartAt("off", NoInfo)
           ELSE IF t = "obs"
                THEN [pc |-> IF d = "d1" THEN "idle" ELSE "off", path |-> <<>>,
                      spellings |-> {}]
           ELSE IF d # "d1" THEN (IF t = "main" THEN StartAt("off", NoInfo)
                                  ELSE ThreadAt("off"))
           ELSE IF t = "main" THEN ThreadAt("wait")
           ELSE ThreadAt("loop")]]
    /\ registry = <<>>
    /\ alive = {ParentPid("d1")}
    /\ now = StartClock
    /\ nticks = 0
    /\ nevents = 0
    /\ owed = [d \in Daemons |-> {}]
    /\ registered = {}

\* add_pending_change(file_path), called with a raw path: the path is
\* coerced and, with the lock held, added to the set
RecordPath(d, file_path) ==
    /\ At(d, "obs", "idle")
    /\ nevents < MaxRecordings
    /\ CanAcquire(daemon[d].sync_lock)
    /\ daemon' = [daemon EXCEPT ![d].pending_changes = @ \cup {coerced(file_path)}]
    /\ owed' = [owed EXCEPT ![d] = @ \cup {NamedFile(file_path)}]
    /\ thread' = [thread EXCEPT ![d]["obs"].spellings = @ \cup {file_path}]
    /\ nevents' = nevents + 1
    /\ UNCHANGED <<registry, alive, now, nticks, registered>>

NextRecord ==
    \/ \E d \in Daemons, file_path \in RecordSpellings : RecordPath(d, file_path)
    \/ \E d \in Daemons, t \in SyncThreads :
           GetPendingCopy(d, t) \/ GetPendingClear(d, t) \/ PushFails(d, t)
    \/ \E d \in Daemons : LoopTriggers(d) \/ SyncReturns(d) \/ WakeUp(d)
    \/ \E dt \in ClockSteps : Tick(dt)

SpecRecord == InitRecord /\ [][NextRecord]_vars

\* A daemon that keeps running: one start(), foreground or detached, every
\* transfer and registry update succeeds at once, nobody stops the daemon.
\* The watcher reports the file /r/a within LiveWindow seconds of the start;
\* the clock runs on, one second at a time while a thread sleeps, to
\* LiveHorizon seconds after the start, which is more than sync_delay
\* seconds (and a tick) after the end of the window.  The threads are
\* scheduled fairly and the clock advances.
LiveWindow == 1
LiveHorizon == 8

EventInWindow(d) ==
    /\ now <= StartClock + LiveWindow
    /\ on_any_event(d, FileA, FALSE)

\* Thread t of daemon d has no statement to run before the clock advances: it
\* sleeps (the sync thread not beyond its wake-up time), waits for an event,
\* or has ended.
Resting(d, t) ==
    IF t = "sync"
    THEN \/ thread[d][t].pc \in {"off", "crashed"}
         \/ At(d, t, "sleep") /\ now < thread[d][t].wake
    ELSE thread[d][t].pc \in {"off", "wait", "idle", "returned_true", "returned_false"}

\* a second passes: the statements of the threads take no time, so the clock
\* advances only when every thread rests, the sync thread in time.sleep(1.0)
\* or the main thread in the time.sleep of its wait loop
LiveTick ==
    /\ now < StartClock + LiveHorizon
    /\ \A d \in Daemons, t \in Threads : Resting(d, t)
    /\ \E d \in Daemons : At(d, "sync", "sleep") \/ At(d, "main", "wait")
    /\ now' = now + 1
    /\ UNCHANGED <<daemon, thread, registry, alive, nticks, nevents, owed, registered>>

\* The steps of perform_sync when the transfer and the registry update succeed
PassStep(d, t) ==
    \/ GetPendingCopy(d, t)
    \/ GetPendingClear(d, t)
    \/ PushSucceeds(d, t)
    \/ IncWrite(d, t)
    \/ StatsArgs(d, t)
    \/ StatsUpdated(d, t)

\* The steps of the thread that called start()
MainStep(d) ==
    \/ \E detach \in BOOLEAN : StartCheck(d, detach)
    \/ Fork(d)
    \/ Register(d)
    \/ StartWatching(d)
    \/ PassStep(d, "main")
    \/ MainReturns(d)

\* The steps of the sync thread
SyncStep(d) ==
    \/ LoopTriggers(d)
    \/ LoopIdles(d)
    \/ PassStep(d, "sync")
    \/ SyncReturns(d)
    \/ WakeUp(d)

NextLive ==
    \/ \E d \in Daemons : MainStep(d)
    \/ \E d \in Daemons : ParentRegister(d)
    \/ \E d \in Daemons : SyncStep(d)
    \/ \E d \in Daemons : EventInWindow(d)
    \/ \E d \in Daemons : add_pending_change(d)
    \/ LiveTick

SpecLive ==
    /\ Init
    /\ [][NextLive]_vars
    /\ \A d \in Daemons : WF_vars(MainStep(d))
    /\ \A d \in Daemons : WF_vars(SyncStep(d))
    /\ \A d \in Daemons : WF_vars(add_pending_change(d))
    /\ WF_vars(LiveTick)

\* The event handler alone: on_any_event is called on a running daemon with
\* up to MaxFilterEvents events, for files that the rules keep (/r/a, /r/b),
\* files that they exclude (/r/t/c by "t/", /r/c.o by "*.o") and directories
\* (/r/d, and /r/t, which a rule excludes as well); the sync thread drains
\* (every transfer fails, so that the next tick drains again).
MaxFilterEvents == 3

DirD == RawPath(TRUE, local_path \o << <<"d">> >>)

\* FileSystemEvent: src_path and is_directory
FilterEvents ==
    [src_path : {FileA, FileB, FileT, FileO}, is_directory : {FALSE}]
        \cup [src_path : {DirD, RawPath(TRUE, local_path \o << <<"t">> >>)},
              is_directory : {TRUE}]

InitFilter ==
    /\ daemon = [d \in Daemons |->
           IF d = "d1"
           THEN [NewDaemon EXCEPT !.is_running = TRUE, !.observer = "alive",
                                  !.pid = ParentPid(d)]
           ELSE NewDaemon]
    /\ thread = [d \in Daemons |-> [t \in Threads |->
           IF t = "parent" THEN StartAt("off", NoInfo)
           ELSE IF t = "obs"
                THEN [pc |-> IF d = "d1" THEN "idle" ELSE "off", path |-> <<>>,
                      delivered |-> {}, last |-> <<>>]
           ELSE IF d # "d1" THEN (IF t = "main" THEN StartAt("off", NoInfo)
                                  ELSE ThreadAt("off"))
           ELSE IF t = "main" THEN ThreadAt("wait")
           ELSE ThreadAt("loop")]]
    /\ registry = <<>>
    /\ alive = {ParentPid("d1")}
    /\ now = StartClock
    /\ nticks = 0
    /\ nevents = 0
    /\ owed = [d \in Daemons |-> {}]
    /\ registered = {}

\* on_any_event(event) from its first statement to its return: the event is
\* dropped, or add_pending_change adds its path with the lock held.  The
\* watcher's thread keeps the events it has been given (delivered, and the
\* last of them).
HandleEvent(d, event) ==
    /\ At(d, "obs", "idle")
    /\ daemon[d].observer = "alive"
    /\ nevents < MaxFilterEvents
    /\ nevents' = nevents + 1
    /\ LET handled == EventHandled(d, event.src_path, event.is_directory)[d]["obs"]
       IN  IF handled.pc = "add_lock"
           THEN /\ CanAcquire(daemon[d].sync_lock)
                /\ daemon' = [daemon EXCEPT ![d].pending_changes = @ \cup {handled.path}]
                /\ owed' = [owed EXCEPT ![d] = @ \cup {handled.path}]
           ELSE UNCHANGED <<daemon, owed>>
    /\ thread' = [thread EXCEPT ![d]["obs"].delivered = @ \cup {event},
                                ![d]["obs"].last = <<event>>]
    /\ UNCHANGED <<registry, alive, now, nticks, registered>>

NextFilter ==
    \/ \E d \in Daemons, event \in FilterEvents : HandleEvent(d, event)
    \/ \E d \in Daemons, t \in SyncThreads :
           GetPendingCopy(d, t) \/ GetPendingClear(d, t) \/ PushFails(d, t)
    \/ \E d \in Daemons : LoopTriggers(d) \/ SyncReturns(d) \/ WakeUp(d)
    \/ \E dt \in ClockSteps : Tick(dt)

SpecFilter == InitFilter /\ [][NextFilter]_vars

\* A daemon and the stop command for it: a daemon is created from a
\* configuration whose local_path is spelled in any way of the bounds, starts
\* detached and is registered; then the stop command is invoked with that
\* configuration (--config), with --path in one of several spellings, or with
\* neither option (the working directory), with and without --force.  The
\* file system and the working directory are those of SpecSignature.
StopPathArguments ==
    {p \in Spellings :
         p.comps \in {<< <<"r">> >>, << <<"l">> >>, << <<"r">>, <<"s">> >>,
                      << <<"s">> >>, <<Dot>>, << <<"l">>, DotDot >>}}

\* cli.py stop: the path text passed to stop_daemon.  The configuration's
\* local_path ends with "/" (the root is "/" itself); os.path.abspath gives no
\* final slash
stop_target_path(option) ==
    IF option.kind = "config"
    THEN (IF config_local_path(option.arg).comps = <<>> THEN <<>>
          ELSE WithFinalSlash(config_local_path(option.arg).comps))
    ELSE abspath(option.arg)

InitStop ==
    \E spelling \in Spellings :
    \E option \in [kind : {"path"}, arg : StopPathArguments]
                      \cup {[kind |-> "config", arg |-> spelling],
                            [kind |-> "cwd",
                             arg |-> [abs |-> FALSE, slash |-> FALSE, comps |-> <<Dot>>]]} :
        /\ daemon = [d \in Daemons |-> NewDaemon]
        /\ thread = [d \in Daemons |-> [t \in Threads |->
               IF t = "main"
               THEN (IF d = "d1" THEN [pc |-> "config", spelling |-> spelling]
                     ELSE [pc |-> "cli", option |-> option])
               ELSE IF t = "parent" THEN StartAt("off", NoInfo)
               ELSE IF t = "obs" THEN ObsAt("off", <<>>)
               ELSE ThreadAt("off")]]
        /\ registry = <<>>
        /\ alive = {}
        /\ now = StartClock
        /\ nticks = 0
        /\ nevents = 0
        /\ owed = [d \in Daemons |-> {}]
        /\ registered = {}

\* start(detach=True) of a constructed daemon on an empty registry: the
\* record carries str(self.local_path), self.signature and the pid of the
\* detached copy
StartConstructed(d) ==
    /\ At(d, "main", "constructed")
    /\ LET daemon_info == [pid |-> ChildPid(d),
                           local_path |-> thread[d]["main"].local_path,
                           signature |-> thread[d]["main"].signature,
                           started_at |-> now, sync_count |-> 0, last_sync |-> NoSync]
       IN  /\ registry' = start_daemon(registry, alive, daemon_info)
           /\ registered' = Persisted(registered, registry, alive, daemon_info)
    /\ alive' = alive \cup {ChildPid(d)}
    /\ thread' = [thread EXCEPT ![d]["main"].pc = "running"]
    /\ UNCHANGED <<daemon, now, nticks, nevents, owed>>

\* The stop command, invoked while the daemon runs
StopRunning(d, force) ==
    /\ \E e \in Daemons : At(e, "main", "running")
    /\ At(d, "main", "cli")
    /\ StopCommand(d, stop_target_path(thread[d]["main"].option), force)

NextStop ==
    \/ \E d \in Daemons : Construct(d)
    \/ \E d \in Daemons : StartConstructed(d)
    \/ \E d \in Daemons, force \in BOOLEAN : StopRunning(d, force)
    \/ \E d \in Daemons : SignalDelivered(d)

SpecStop == InitStop /\ [][NextStop]_vars

(***************************************************************************)
(* Properties                                                              *)
(***************************************************************************)
Sig == generate_signature(local_path)

\* The daemon of invocation d is watching and syncing: its process lives and
\* its loop is on.
Watching(d) == daemon[d].is_running /\ daemon[d].pid \in alive

OtherThread(t) == IF t = "main" THEN "sync" ELSE "main"

Elapsed(d) == now - daemon[d].last_sync_time

\* C1: for one canonical path, at no time are two live daemon processes both
\* watching and syncing it, whatever the interleaving of the start() calls.
C1_OneDaemonPerPath == Cardinality({d \in Daemons : Watching(d)}) <= 1

\* C2: a daemon is watching only if a record carrying its own process id was
\* successfully registered before.
C2_RegisteredBeforeWatching ==
    \A d \in Daemons : Watching(d) => daemon[d].pid \in registered

\* C3: every path whose recording completed is returned by exactly one drain:
\* the pending set holds exactly the recordings no drain has returned yet, and
\* a drain returns exactly those.
C3_NoLossNoDuplication ==
    \A d \in Daemons :
        /\ daemon[d].pending_changes = owed[d]
        /\ \A t \in SyncThreads :
               At(d, t, "gp_clear") => thread[d][t].changes = owed[d]

\* C3, its case: one drain has returned a recorded path, another drain of the
\* same daemon has returned without it.
C3_Witness ==
    \E d \in Daemons, t \in SyncThreads :
        /\ At(d, t, "push") /\ thread[d][t].changes # {}
        /\ At(d, OtherThread(t), "push") /\ thread[d][OtherThread(t)].changes = {}

\* C4: within one daemon process at most one perform_sync is in flight.
C4_OneSyncInFlight ==
    \A d \in Daemons : Cardinality({t \in SyncThreads : InPerformSync(d, t)}) <= 1

\* C5: the tick triggers a sync exactly when more than max_sync_interval
\* seconds have passed since the last sync, or a change is pending and more
\* than sync_delay seconds have passed; with 5 and 300: it fires at T+301
\* with nothing pending and at T+6 with a pending change, not at T+4 or T+5.
C5_TriggerCondition ==
    \A d \in Daemons :
        LET fired == At(d, "sync", "gp_lock")
            idled == At(d, "sync", "sleep")
            has == daemon[d].pending_changes # {}
            e == Elapsed(d)
        IN  /\ fired => (e >= max_sync_interval + 1 \/ (has /\ e >= sync_delay + 1))
            /\ idled => (e <= max_sync_interval /\ (~has \/ e <= sync_delay))
            /\ (e = 301 /\ ~has) => ~idled
            /\ (e = 6 /\ has) => ~idled
            /\ (e \in {4, 5} /\ has) => ~fired
            /\ (e = 300 /\ ~has) => ~fired

\* C5, its case: a tick exactly sync_delay seconds after the last sync, with a
\* pending change, has not fired.
C5_Witness ==
    \E d \in Daemons :
        /\ At(d, "sync", "sleep")
        /\ daemon[d].pending_changes # {}
        /\ Elapsed(d) = sync_delay

C7_FailedSyncDoesNotRequeue ==
    \A d \in Daemons, t \in SyncThreads :
        thread[d][t].pc \in {"push", "inc_write", "args", "stats", "ret"}
            => (daemon[d].pending_changes \cap thread[d][t].changes) \subseteq owed[d]

\* C7, its case: perform_sync has returned False after draining a path.
C7_Witness ==
    \E d \in Daemons, t \in SyncThreads :
        At(d, t, "ret") /\ thread[d][t].ret = "False" /\ thread[d][t].changes # {}

\* C8: when perform_sync has returned True (no other pass is running, and
\* none has just failed), the daemon's record, if present, carries the
\* daemon's sync_count and last_sync_time.
C8_RecordCarriesLocalStats ==
    \A d \in Daemons, t \in SyncThreads :
        (/\ At(d, t, "ret")
         /\ thread[d][t].ret = "True"
         /\ ~InPerformSync(d, OtherThread(t))
         /\ thread[d][OtherThread(t)].ret # "False"
         /\ Sig \in DOMAIN registry
         /\ registry[Sig].pid = daemon[d].pid)
            => /\ registry[Sig].sync_count = daemon[d].sync_count
               /\ registry[Sig].last_sync = daemon[d].last_sync_time

\* C9: when perform_sync has returned False, sync_count and last_sync_time
\* have the values they had before the call.
C9_FailureLeavesStats ==
    \A d \in Daemons, t \in SyncThreads :
        (At(d, t, "ret") /\ thread[d][t].ret = "False")
            => /\ daemon[d].sync_count = thread[d][t].pre_count
               /\ daemon[d].last_sync_time = thread[d][t].pre_time

\* C10: after a tick in which the executor raised an exception, the loop
\* sleeps ErrorSleep (5) seconds instead of TickSleep (1).
C10_BackoffAfterException ==
    [][\A d \in Daemons :
          (/\ At(d, "sync", "ret")
           /\ thread[d]["sync"].raised
           /\ thread'[d]["sync"].pc = "sleep")
              => thread'[d]["sync"].wake = now + ErrorSleep]_vars

\* C11: the sync thread leaves sync_loop only when is_running is false, and
\* is_running is set to false only by the stop path (the main thread, out of
\* its wait loop), whatever transfers fail and whatever is raised in a tick.
C11_LoopOnlyEndsByStop ==
    [][\A d \in Daemons :
          /\ (/\ thread[d]["sync"].pc \notin {"exited", "crashed", "off"}
              /\ thread'[d]["sync"].pc \in {"exited", "crashed"})
                 => ~daemon[d].is_running
          /\ (daemon[d].is_running /\ ~daemon'[d].is_running)
                 => (At(d, "main", "wait") /\ thread'[d]["main"].pc = "stop_join")]_vars

\* C12: a start() that finds a live record of the path returns False and
\* changes nothing: the registry, the set of processes, the daemon's fields
\* (observer not scheduled, is_running, pending set, sync_count,
\* last_sync_time) and its other threads are as before; nothing is forked and
\* no sync is begun.
C12_RefusedStartChangesNothing ==
    [][\A d \in Daemons :
          (/\ At(d, "main", "init")
           /\ thread'[d]["main"] # thread[d]["main"]
           /\ get_daemon_by_path(registry, alive, local_path) # {})
              => /\ thread'[d]["main"].pc = "returned_false"
                 /\ registry' = registry
                 /\ alive' = alive
                 /\ daemon'[d] = daemon[d]
                 /\ daemon[d] = NewDaemon
                 /\ \A t \in Threads \ {"main"} : thread'[d][t] = thread[d][t]
                 /\ owed' = owed /\ registered' = registered]_vars

\* C12, its case: a start() has returned False while the daemon of another
\* start() for the same path is watching, and has left its object as created.
C12_Witness ==
    \E d, e \in Daemons :
        /\ d # e
        /\ Watching(e) /\ IsLive(registry, alive, Sig)
        /\ At(d, "main", "returned_false")
        /\ daemon[d] = NewDaemon

\* C13: while the process recorded for the path is live, start() returns
\* False and a start_daemon call persists nothing; when there is no record or
\* the recorded process is dead (a stale record), start() goes on and a
\* start_daemon call persists the caller's record.
C13_StaleRecordDoesNotBlock ==
    [][\A d \in Daemons :
          LET live == Sig \in DOMAIN registry /\ registry[Sig].pid \in alive
              Registers(t) ==
                  IF live
                  THEN registry' = registry /\ registered' = registered
                  ELSE /\ Sig \in DOMAIN registry'
                       /\ registry'[Sig] = thread[d][t].info
                       /\ thread[d][t].info.pid \in registered'
          IN  /\ (At(d, "main", "init") /\ thread'[d]["main"] # thread[d]["main"])
                     => (thread'[d]["main"].pc = "returned_false" <=> live)
              /\ (/\ At(d, "main", "register") /\ daemon[d].detach
                  /\ thread'[d]["main"] # thread[d]["main"]) => Registers("main")
              /\ (At(d, "parent", "par_register")
                  /\ thread'[d]["parent"] # thread[d]["parent"]) => Registers("parent")]_vars

\* C13, its case: a daemon that had registered was killed without
\* unregistering, and the daemon of a later start() holds the record of the
\* path and is watching.
C13_Witness ==
    \E d, e \in Daemons :
        /\ d # e
        /\ At(d, "main", "killed") /\ daemon[d].pid \in registered
        /\ Sig \in DOMAIN registry /\ registry[Sig].pid = daemon[e].pid
        /\ daemon[e].pid \in registered
        /\ Watching(e)

\* C14: once a daemon that was running has been stopped and its process is
\* through with start(), the stop path has run: is_running is false, the
\* watcher is stopped, and the registry holds no record with the daemon's
\* process id.
C14_StopPathCompletes ==
    \A d \in Daemons :
        thread[d]["main"].pc \in {"stopped", "returned_true", "raised", "interrupted"}
            => /\ ~daemon[d].is_running
               /\ daemon[d].observer = "stopped"
               /\ ~(Sig \in DOMAIN registry /\ registry[Sig].pid = daemon[d].pid)

\* C15: once stop has set is_running to false the sync thread begins no new
\* perform_sync, and stop() goes on to stop the watcher (and then to
\* unregister) only when the sync thread has left sync_loop.
C15_StopWaitsForLoop ==
    [][\A d \in Daemons :
          /\ (~daemon[d].is_running /\ ~At(d, "sync", "gp_lock"))
                 => thread'[d]["sync"].pc # "gp_lock"
          /\ (At(d, "main", "stop_join") /\ thread'[d]["main"].pc = "stop_cleanup")
                 => thread[d]["sync"].pc \in {"exited", "crashed"}]_vars

\* The three created paths as the daemon records them.
CreatedPaths == {_coerce_path(CreatedFiles[i]) : i \in 1..Len(CreatedFiles)}

\* The end of the scenario: the three files were recorded, EndToEndSeconds
\* have passed since the start, nothing is pending and no pass is running.
EndToEndDone(d) ==
    /\ nevents = Len(CreatedFiles)
    /\ now = StartClock + EndToEndSeconds
    /\ daemon[d].pending_changes = {}
    /\ At(d, "obs", "idle")
    /\ At(d, "main", "wait")
    /\ thread[d]["sync"].pc \in {"loop", "sleep"}

\* C16: in the end-to-end scenario a pass that drains anything drains all
\* three created files, and at the end sync_count is 1.
C16_EndToEndOnePass ==
    \A d \in Daemons :
        /\ \A t \in SyncThreads :
               (At(d, t, "push") /\ thread[d][t].changes # {})
                   => thread[d][t].changes = CreatedPaths
        /\ EndToEndDone(d) => daemon[d].sync_count = 1

\* C17: the pending set is written only by a thread that holds sync_lock
\* (record takes the free lock, drain clears while holding it), and a tick
\* that reads the pending set in should_sync_now (the forced trigger being
\* false) does so with the lock taken, that is, while no other thread holds it.
C17_PendingOnlyUnderLock ==
    [][\A d \in Daemons :
          /\ daemon'[d].pending_changes # daemon[d].pending_changes
                 => \/ (At(d, "obs", "add_lock") /\ CanAcquire(daemon[d].sync_lock))
                    \/ \E t \in SyncThreads :
                           At(d, t, "gp_clear") /\ daemon[d].sync_lock = t
          /\ (/\ At(d, "sync", "loop") /\ daemon[d].is_running
              /\ thread'[d]["sync"].pc \in {"gp_lock", "sleep"}
              /\ Elapsed(d) <= max_sync_interval)
                 => CanAcquire(daemon[d].sync_lock)]_vars

\* C18: sync_count and last_sync_time are written by the sync thread only:
\* no step of the thread that called start() and no step of the watcher's
\* thread changes them.
C18_StatsOnlyOnSyncThread ==
    [][\A d \in Daemons :
          (\/ daemon'[d].sync_count # daemon[d].sync_count
           \/ daemon'[d].last_sync_time # daemon[d].last_sync_time)
              => /\ thread'[d]["main"] = thread[d]["main"]
                 /\ thread'[d]["obs"] = thread[d]["obs"]]_vars

\* The relative path, with forward slashes, of the file the handler checks.
CheckedRelPath(d) == _relative_path(_coerce_path(thread[d]["obs"].path))

\* The rule is a trailing-slash rule "X/".
IsTrailingSlashRule(rule) == Len(rule) > 0 /\ rule[Len(rule)] = Slash

\* X of the trailing-slash rule "X/"
RuleDirectory(rule) == SubSeq(rule, 1, Len(rule) - 1)

\* C19: a file whose relative path starts with X is excluded whenever the
\* rule list holds a trailing-slash rule "X/".
C19_TrailingSlashExcludesPrefix ==
    \A d \in Daemons :
        thread[d]["obs"].pc \in {"excluded", "kept"}
            => \A i \in 1..Len(thread[d]["obs"].rules) :
                   LET rule == thread[d]["obs"].rules[i]
                   IN  (IsTrailingSlashRule(rule)
                        /\ startswith(CheckedRelPath(d), RuleDirectory(rule)))
                           => At(d, "obs", "excluded")

\* C19, its case: the rule "b/" alone has excluded the file "b/c".
C19_Witness ==
    \E d \in Daemons :
        /\ At(d, "obs", "excluded")
        /\ thread[d]["obs"].rules = << <<"b", Slash>> >>
        /\ CheckedRelPath(d) = <<"b", Slash, "c">>

\* C20: with a trailing-slash rule "X/" alone (X a directory name), a file
\* that is not X itself and does not lie beneath directory X is not excluded.
C20_TrailingSlashOnlySubtree ==
    \A d \in Daemons :
        (/\ thread[d]["obs"].pc \in {"excluded", "kept"}
         /\ Len(thread[d]["obs"].rules) = 1
         /\ IsTrailingSlashRule(thread[d]["obs"].rules[1])
         /\ LET X == RuleDirectory(thread[d]["obs"].rules[1])
                rel == CheckedRelPath(d)
            IN  /\ X # <<>>
                /\ \A i \in 1..Len(X) : X[i] \notin {Slash, Star, QMark}
                /\ rel # X
                /\ ~startswith(rel, X \o <<Slash>>))
            => At(d, "obs", "kept")

\* The rule has a shell wildcard character.
HasWildcard(rule) == \E i \in 1..Len(rule) : rule[i] \in {Star, QMark}

\* The bare name of the file the handler checks.
CheckedName(d) == PathName(_coerce_path(thread[d]["obs"].path))

\* The rule, as a shell-style glob, matches the relative path or the bare name.
GlobMatches(d, rule) ==
    fnmatch(CheckedRelPath(d), rule) \/ fnmatch(CheckedName(d), rule)

\* C21: whenever the rule list holds a rule without a trailing slash that has
\* a wildcard character ("*" or "?") and that matches, as a glob, the relative
\* path or the bare name, the file is excluded; in particular the rule "*c"
\* excludes "bc" and "b/bc".
C21_WildcardRuleIsGlob ==
    \A d \in Daemons :
        thread[d]["obs"].pc \in {"excluded", "kept"}
            => /\ \A i \in 1..Len(thread[d]["obs"].rules) :
                      LET rule == thread[d]["obs"].rules[i]
                      IN  (/\ ~IsTrailingSlashRule(rule)
                           /\ HasWildcard(rule)
                           /\ GlobMatches(d, rule))
                              => At(d, "obs", "excluded")
               /\ (/\ thread[d]["obs"].rules = << <<Star, "c">> >>
                   /\ CheckedRelPath(d) \in {<<"b", "c">>, <<"b", Slash, "b", "c">>})
                      => At(d, "obs", "excluded")

\* The rule matches the checked file under its own kind: a rule that ends with
\* a slash as a prefix of the relative path, a rule with "*" as a glob, any
\* other rule by equality with the relative path or the bare name.
RuleMatches(d, rule) ==
    IF IsTrailingSlashRule(rule)
    THEN startswith(CheckedRelPath(d), rstrip_slash(rule))
    ELSE IF Star \in {rule[i] : i \in 1..Len(rule)}
         THEN GlobMatches(d, rule)
    ELSE CheckedRelPath(d) = rule \/ CheckedName(d) = rule

Reversed(list) == [i \in 1..Len(list) |-> list[Len(list) + 1 - i]]

CanonicalPath(path) ==
    realpath_onto(<<>>, IF path.abs THEN path.comps ELSE WorkingDirectory \o path.comps)

\* C23: two daemons whose configured local paths have the same canonical path
\* have the same signature, however the paths are spelled.
C23_SamePathSameSignature ==
    \A d, e \in Daemons :
        (/\ At(d, "main", "constructed") /\ At(e, "main", "constructed")
         /\ CanonicalPath(thread[d]["main"].spelling)
                = CanonicalPath(thread[e]["main"].spelling))
            => thread[d]["main"].signature = thread[e]["main"].signature

\* The records of the registry for the watched path.
RecordsOfPath == {sig \in DOMAIN registry : registry[sig].local_path = local_path}

\* The detached start of invocation d has run in both processes: the parent
\* has registered and returned, the child has registered and has not yet
\* unregistered.
DetachedStartDone(d) ==
    /\ daemon[d].detach
    /\ At(d, "parent", "returned_true")
    /\ thread[d]["main"].pc \notin
           {"init", "fork", "register", "returned_false",
            "stopped", "returned_true", "raised"}

TargetDirectory(target_path) ==
    IF target_path # <<>> /\ target_path[Len(target_path)] = <<>>
    THEN SubSeq(target_path, 1, Len(target_path) - 1)
    ELSE target_path

\* A record of the directory is persisted and its process is live.
LiveDaemonFor(path) ==
    \E sig \in DOMAIN registry :
        registry[sig].local_path = path /\ registry[sig].pid \in alive

\* C25: a stop command for a path that has no live daemon registered ends
\* with "not found" (success false, exit status 1, no error raised), sends no
\* signal, ends no process, and leaves the records of all other paths as they
\* were.
C25_StopWithoutDaemonNotFound ==
    [][\A d \in Daemons :
          (/\ At(d, "main", "cli")
           /\ thread'[d]["main"].pc = "stop_done"
           /\ ~LiveDaemonFor(TargetDirectory(thread'[d]["main"].target_path)))
              => /\ ~thread'[d]["main"].success
                 /\ thread'[d]["main"].exit_status = 1
                 /\ thread'[d]["main"].signalled = {}
                 /\ alive' = alive
                 /\ \A sig \in DOMAIN registry :
                        registry[sig].local_path
                            # TargetDirectory(thread'[d]["main"].target_path)
                            => (sig \in DOMAIN registry' /\ registry'[sig] = registry[sig])]_vars

\* C25, its case: a stop for /r, which has no live daemon and no record left,
\* has ended with "not found" while the daemon of /q is live and keeps its
\* record.
C25_Witness ==
    \E d \in Daemons :
        /\ At(d, "main", "stop_done")
        /\ thread[d]["main"].target_path = local_path
        /\ ~thread[d]["main"].success
        /\ generate_signature(local_path) \notin DOMAIN registry
        /\ LiveDaemonFor(OtherPath)
        /\ \E e \in Daemons : At(e, "main", "cli")

IsCanonical(path) ==
    /\ IsPrefix(local_path, path)
    /\ \A i \in 1..Len(path) : path[i] \notin {Dot, DotDot}

\* C27: the pending set holds exactly one entry, in canonical absolute form,
\* for each file recorded since the last drain, however often and in whatever
\* spelling the file was recorded, and a drain returns exactly these entries.
C27_RecordCanonicalAndDeduplicated ==
    \A d \in Daemons :
        /\ daemon[d].pending_changes = owed[d]
        /\ \A path \in daemon[d].pending_changes : IsCanonical(path)
        /\ \A t \in SyncThreads :
               /\ At(d, t, "gp_clear") => thread[d][t].changes = owed[d]
               /\ thread[d][t].pc \in {"gp_clear", "push", "ret"}
                      => \A path \in thread[d][t].changes : IsCanonical(path)

\* C27, its case: the file /r/a was recorded three times, by its absolute and
\* by relative spellings, and the drain that followed has returned the one
\* entry /r/a.
C27_Witness ==
    \E d \in Daemons :
        /\ Cardinality(thread[d]["obs"].spellings) = MaxRecordings
        /\ thread[d]["obs"].spellings \subseteq FileASpellings
        /\ RawPath(TRUE, PathA) \in thread[d]["obs"].spellings
        /\ At(d, "sync", "push")
        /\ thread[d]["sync"].changes = {PathA}
        /\ daemon[d].pending_changes = {}

\* C28: while the daemon keeps running, a path that is in the pending set is
\* eventually drained.
C28_PendingEventuallyDrained ==
    \A d \in Daemons :
        (Watching(d) /\ _coerce_path(FileA) \in daemon[d].pending_changes)
            ~> (~Watching(d) \/ _coerce_path(FileA) \notin daemon[d].pending_changes)

\* The trigger condition at the present time.
TriggerHolds(d) ==
    \/ Elapsed(d) > max_sync_interval
    \/ (daemon[d].pending_changes # {} /\ Elapsed(d) > sync_delay)

\* The sync thread of a running daemon, at the top of its loop, takes a step
\* and its process goes on.
TickStep(d) ==
    /\ At(d, "sync", "loop")
    /\ daemon[d].is_running
    /\ daemon[d].pid \in alive'
    /\ thread'[d]["sync"] # thread[d]["sync"]

\* C29: a tick at which the trigger condition holds calls perform_sync before
\* the loop sleeps; a tick at which it does not hold goes to sleep and changes
\* neither the daemon's fields nor the registry; and the loop goes to sleep
\* only from such a tick or when perform_sync has returned.
C29_TriggerRunsSyncInSameTick ==
    [][\A d \in Daemons :
          /\ (TickStep(d) /\ TriggerHolds(d)) => thread'[d]["sync"].pc = "gp_lock"
          /\ (TickStep(d) /\ ~TriggerHolds(d))
                 => /\ thread'[d]["sync"].pc = "sleep"
                    /\ thread'[d]["sync"].wake = now + TickSleep
                    /\ daemon'[d] = daemon[d]
                    /\ registry' = registry
          /\ (~At(d, "sync", "sleep") /\ thread'[d]["sync"].pc = "sleep")
                 => \/ At(d, "sync", "ret")
                    \/ (At(d, "sync", "loop") /\ ~TriggerHolds(d))]_vars

\* C29, its case: a pass that a tick began after the clock had advanced has
\* drained a recorded path and has returned True, and the loop has not slept
\* yet.
C29_Witness ==
    \E d \in Daemons :
        /\ At(d, "sync", "ret")
        /\ thread[d]["sync"].ret = "True"
        /\ thread[d]["sync"].changes # {}
        /\ At(d, "main", "wait")
        /\ daemon[d].last_sync_time > StartClock

\* No pass of daemon d has succeeded so far.
NoSuccessYet(d) == daemon[d].sync_count = 0

\* C30: a daemon is created with last_sync_time 0 and enters perform_sync
\* when it begins to watch; while no pass has succeeded last_sync_time stays
\* 0, every tick of the running daemon calls perform_sync, also with an empty
\* pending set, and a pass that has failed is followed by a sleep of
\* TickSleep seconds.
C30_FailingDaemonSyncsEveryTick ==
    [][\A d \in Daemons :
          /\ (At(d, "main", "init") /\ thread'[d]["main"].pc # "init")
                 => daemon[d].last_sync_time = 0
          /\ (At(d, "main", "watch") /\ thread'[d]["main"].pc # "watch")
                 => (thread'[d]["main"].pc = "gp_lock" /\ daemon'[d].is_running)
          /\ NoSuccessYet(d) => daemon[d].last_sync_time = 0
          /\ (NoSuccessYet(d) /\ TickStep(d)) => thread'[d]["sync"].pc = "gp_lock"
          /\ (/\ At(d, "sync", "ret") /\ thread[d]["sync"].ret = "False"
              /\ thread'[d]["sync"].pc = "sleep")
                 => thread'[d]["sync"].wake = now + TickSleep]_vars

\* C30, its case: after a failed pass and a sleep of one second the sync
\* thread has called perform_sync again, with nothing pending and
\* last_sync_time still 0.
C30_Witness ==
    \E d \in Daemons :
        /\ At(d, "sync", "gp_lock")
        /\ now = StartClock + TickSleep
        /\ thread[d]["sync"].pre_time = 0
        /\ daemon[d].last_sync_time = 0
        /\ daemon[d].pending_changes = {}
        /\ nevents = 0
        /\ At(d, "main", "wait")

\* The event is one that the handler has to drop: a directory event, or an
\* event on a path that should_exclude_file excludes.
ToBeDropped(event) == event.is_directory \/ should_exclude_file(event.src_path)

\* C31: whatever events the handler is given, the pending set (and what a
\* drain has taken from it) holds only paths of delivered events that are no
\* directory events and that should_exclude_file does not exclude, and the
\* handling of a directory event or of an event on an excluded path leaves
\* the daemon's fields and the registry as they are.
C31_OnlyKeptFilesRecorded ==
    /\ [](\A d \in Daemons :
              \A path \in daemon[d].pending_changes \cup owed[d] :
                  /\ ~should_exclude_file(RawPath(TRUE, path))
                  /\ \E event \in thread[d]["obs"].delivered :
                         /\ ~ToBeDropped(event)
                         /\ path = _coerce_path(event.src_path)
                  /\ \A event \in FilterEvents :
                         event.is_directory => path # _coerce_path(event.src_path))
    /\ [][\A d \in Daemons :
              (/\ nevents' # nevents
               /\ thread'[d]["obs"].last # <<>>
               /\ ToBeDropped(thread'[d]["obs"].last[1]))
                  => /\ daemon' = daemon
                     /\ owed' = owed
                     /\ registry' = registry]_vars

\* C31, its case: the handler has been given a directory event, an event on
\* an excluded file and an event on a file that the rules keep, and the
\* pending set holds the kept file alone.
C31_Witness ==
    \E d \in Daemons :
        /\ thread[d]["obs"].delivered =
               {[src_path |-> DirD, is_directory |-> TRUE],
                [src_path |-> FileO, is_directory |-> FALSE],
                [src_path |-> FileA, is_directory |-> FALSE]}
        /\ thread[d]["obs"].last[1].src_path = FileO
        /\ daemon[d].pending_changes = {PathA}

\* C32: sync_count is the number of transfers that have succeeded: each pass
\* whose transfer succeeded raises it by exactly one when it writes the
\* counter, also when two passes overlap, and no step lowers it.
C32_SyncCountCountsSuccesses ==
    [][\A d \in Daemons :
          /\ daemon'[d].sync_count >= daemon[d].sync_count
          /\ \A t \in SyncThreads :
                 (At(d, t, "inc_write") /\ thread'[d][t].pc = "args")
                     => daemon'[d].sync_count = daemon[d].sync_count + 1]_vars

\* C33: the cleanup of stop() removes no record that belongs to another
\* process that is still live: a record whose pid is not the stopping
\* daemon's and identifies a live process is still persisted after the step.
C33_StopRemovesOwnRecordOnly ==
    [][\A d \in Daemons :
          (At(d, "main", "stop_cleanup") /\ thread'[d]["main"].pc = "stopped")
              => \A sig \in DOMAIN registry :
                     (registry[sig].pid # daemon[d].pid /\ registry[sig].pid \in alive)
                         => sig \in DOMAIN registry']_vars

\* C34: when the invoking process of a detached start has returned True, a
\* start_daemon call has persisted a record with the process id of the
\* detached copy; and a detached copy that runs on (it watches) has such a
\* record persisted.
C34_DetachedSuccessMeansRegistered ==
    \A d \in Daemons :
        /\ At(d, "parent", "returned_true") => ChildPid(d) \in registered
        /\ (daemon[d].detach /\ Watching(d)) => ChildPid(d) \in registered

\* The stop option names the directory daemon e runs on: the configuration
\* the daemon was started from, or a path (for no option, the working
\* directory) whose canonical path is the daemon's local_path.
StopNamesDirectory(option, e) ==
    \/ option.kind = "config"
    \/ CanonicalPath(option.arg) = thread[e]["main"].local_path

\* C35: a stop command that names the directory of a running daemon passes
\* to the registry exactly the path text the daemon stored in its record,
\* finds the daemon and signals its process.
C35_StopUsesRegisteredPath ==
    [][\A d, e \in Daemons :
          (/\ At(d, "main", "cli")
           /\ thread'[d]["main"].pc = "stop_done"
           /\ At(e, "main", "running")
           /\ StopNamesDirectory(thread[d]["main"].option, e))
              => /\ thread'[d]["main"].target_path
                        = registry[thread[e]["main"].signature].local_path
                 /\ thread'[d]["main"].success
                 /\ thread'[d]["main"].signalled = {ChildPid(e)}]_vars

=============================================================================
